---- MODULE Spec2Model ----
(***************************************************************************)
(* Gesture pipeline of youtube_shorts_gesture_313.py: HandDetector         *)
(* (detect_hand, detect_gesture, _is_palm_open) and the run loop of        *)
(* YouTubeShortsGestureControl with its two debounce mechanisms            *)
(* (gesture_cooldown, a cycle counter, and action_cooldown, a wall-clock   *)
(* window checked in perform_action).                                      *)
(*                                                                         *)
(* Time is counted in half-seconds: action_cooldown = 1.5 s = 3 ticks.     *)
(* A frame is abstracted to what the pipeline reads from it: the external  *)
(* contours of the skin mask (area and bounding box of each, in traversal  *)
(* order) and the contours of the binarised crop around the hand (area and *)
(* perimeter of each).                                                     *)
(***************************************************************************)
EXTENDS Integers, Sequences, FiniteSets, TLC

\* ---------------------------------------------------------------- bounds
FrameW == 640
FrameH == 480
\* first reading of time.time(), in ticks: the epoch clock is far past the
\* cooldown when the program starts
EpochStart == 4
\* how far the clock may run past EpochStart
ClockSpan == 3
\* largest clock advance during one cycle
MaxAdvance == 1
\* gesture_cooldown is not decremented below -MaxIdle
MaxIdle == 1

\* longest contour list given to detect_hand on its own
MaxContours == 3
\* largest frame width and height for the bounding boxes given to Centroid
ProbeDim == 4
\* largest frame width and height for the positions given to the crop
ProbeSpan == 120

MaxTime == EpochStart + ClockSpan

\* ------------------------------------------------------ program constants
min_contour_area == 5000
action_cooldown == 3
SuppressionCycles == 20
SwipeThreshold == 50
CropHalf == 50
PalmMinArea == 500
\* pi * 10^4, for circularity = 4 * pi * area / perimeter^2
PiE4 == 31416

\* GestureType
NONE == "NONE"
SWIPE_UP == "SWIPE_UP"
SWIPE_DOWN == "SWIPE_DOWN"
PALM_OPEN == "PALM_OPEN"
GestureType == {NONE, SWIPE_UP, SWIPE_DOWN, PALM_OPEN}

\* Python's None for a hand position; a position is <<cx, cy>>
None == << >>

\* pyautogui.press argument; NoKey when nothing is pressed
NoKey == "none"

Max(a, b) == IF a >= b THEN a ELSE b
Min(a, b) == IF a <= b THEN a ELSE b

\* ------------------------------------------------------------ HandDetector

\* variant: the last contour of maximal area wins
LargestIndex_Last(contours) ==
    CHOOSE i \in 1..Len(contours) :
        /\ \A j \in 1..Len(contours) : contours[j].area <= contours[i].area
        /\ \A j \in (i + 1)..Len(contours) : contours[j].area < contours[i].area

\* max(contours, key=cv2.contourArea): index of the first contour of maximal area
LargestIndex(contours) ==
    CHOOSE i \in 1..Len(contours) :
        /\ \A j \in 1..Len(contours) : contours[j].area <= contours[i].area
        /\ \A j \in 1..(i - 1) : contours[j].area < contours[i].area

\* variant: the half extents are rounded up
Centroid_Ceil(c) == <<c.x + ((c.w + 1) \div 2), c.y + ((c.h + 1) \div 2)>>

\* centroid of the bounding box (x, y, w, h)
Centroid(c) == <<c.x + (c.w \div 2), c.y + (c.h \div 2)>>

\* the area test of detect_hand: too small a contour is ignored
TooSmall(area) == area < min_contour_area

\* detect_hand: the hand position, or None
detect_hand(contours) ==
    IF contours = << >> THEN None
    ELSE LET largest_contour == contours[LargestIndex(contours)]
         IN IF TooSmall(largest_contour.area) THEN None
            ELSE Centroid(largest_contour)

\* variant: the start of the slice is not clamped at 0, and Python counts a
\* negative start from the end of the axis
CropExtent_Wrap(c, limit) ==
    LET start == IF c - CropHalf < 0 THEN Max(0, limit + (c - CropHalf))
                 ELSE c - CropHalf
    IN Max(0, Min(limit, c + CropHalf) - start)

\* length of the slice [max(0, c-50) : min(limit, c+50)] of an axis of `limit`
\* pixels (a slice whose start is not below its stop is empty)
CropExtent(c, limit) == Max(0, Min(limit, c + CropHalf) - Max(0, c - CropHalf))

\* detect_hand: the contour it returns with the position, as <<contour>>, or
\* << >> where it returns None
detect_hand_contour(contours) ==
    IF contours = << >> THEN << >>
    ELSE LET largest_contour == contours[LargestIndex(contours)]
         IN IF TooSmall(largest_contour.area) THEN << >>
            ELSE <<largest_contour>>

\* number of pixels of frame[max(0,cy-50):min(H,cy+50), max(0,cx-50):min(W,cx+50)]
HandRoiSize(pos) == CropExtent(pos[2], FrameH) * CropExtent(pos[1], FrameW)

\* circularity < 0.5, i.e. 8 * pi * area < perimeter^2
LowCircularity(area, perimeter) == 8 * PiE4 * area < 10000 * perimeter * perimeter

\* _is_palm_open on the contours (area, perimeter) of the binarised crop
is_palm_open(roi) ==
    IF roi = << >> THEN FALSE
    ELSE LET largest_contour == roi[LargestIndex(roi)]
         IN IF largest_contour.perimeter = 0 THEN FALSE
            ELSE LowCircularity(largest_contour.area, largest_contour.perimeter)
                 /\ largest_contour.area > PalmMinArea

\* variant: the thresholds are inclusive
SwipeOf_Inclusive(prev_hand_pos, current_hand_pos) ==
    IF prev_hand_pos # None
    THEN LET delta_y == prev_hand_pos[2] - current_hand_pos[2]
         IN IF delta_y >= SwipeThreshold THEN SWIPE_UP
            ELSE IF delta_y <= -SwipeThreshold THEN SWIPE_DOWN
            ELSE NONE
    ELSE NONE

\* the swipe branch of detect_gesture
SwipeOf(prev_hand_pos, current_hand_pos) ==
    IF prev_hand_pos # None
    THEN LET delta_y == prev_hand_pos[2] - current_hand_pos[2]
         IN IF delta_y > SwipeThreshold THEN SWIPE_UP
            ELSE IF delta_y < -SwipeThreshold THEN SWIPE_DOWN
            ELSE NONE
    ELSE NONE

\* ------------------------------------------- YouTubeShortsGestureControl

\* variant: the two arrow keys are exchanged
KeyOf_Swapped(gesture_type) ==
    IF gesture_type = SWIPE_UP THEN "up"
    ELSE IF gesture_type = SWIPE_DOWN THEN "down"
    ELSE IF gesture_type = PALM_OPEN THEN "space"
    ELSE NoKey

\* the key perform_action presses for a gesture
KeyOf(gesture_type) ==
    IF gesture_type = SWIPE_UP THEN "down"
    ELSE IF gesture_type = SWIPE_DOWN THEN "up"
    ELSE IF gesture_type = PALM_OPEN THEN "space"
    ELSE NoKey

\* variant: the window is one tick short
InCooldown_Short(current_time, last) == current_time - last < action_cooldown - 1

\* variant: the early return is also taken when the window has just elapsed
InCooldown_Inclusive(current_time, last) == current_time - last <= action_cooldown

\* the early return of perform_action
InCooldown(current_time, last) == current_time - last < action_cooldown

\* variant: the time of the call is stored before the early return
perform_action_StampAlways(gesture_type, current_time, last) ==
    IF InCooldown(current_time, last) \/ KeyOf(gesture_type) = NoKey
    THEN [key |-> NoKey, last_action_time |-> current_time]
    ELSE [key |-> KeyOf(gesture_type), last_action_time |-> current_time]

\* perform_action: the key pressed and the new last_action_time
perform_action(gesture_type, current_time, last) ==
    IF InCooldown(current_time, last) \/ KeyOf(gesture_type) = NoKey
    THEN [key |-> NoKey, last_action_time |-> last]
    ELSE [key |-> KeyOf(gesture_type), last_action_time |-> current_time]

\* variant: the counter is not consulted
ShouldAct_AnyCounter(gesture, counter) == gesture # NONE

\* variant: the outcome is not consulted
ShouldAct_AnyGesture(gesture, counter) == counter <= 0

\* the condition under which run calls perform_action
ShouldAct(gesture, counter) == gesture # NONE /\ counter <= 0

\* variant: every non-None outcome restarts the counter
NextGestureCooldown_OnGesture(gesture, counter) ==
    IF gesture # NONE THEN SuppressionCycles ELSE counter - 1

\* variant: the counter restarts one cycle short
NextGestureCooldown_Short(gesture, counter) ==
    IF ShouldAct(gesture, counter) THEN SuppressionCycles - 1 ELSE counter - 1

\* variant: the counter stops at 0
NextGestureCooldown_Clamped(gesture, counter) ==
    IF ShouldAct(gesture, counter) THEN SuppressionCycles ELSE Max(0, counter - 1)

\* gesture_cooldown after the if/else of run
NextGestureCooldown(gesture, counter) ==
    IF ShouldAct(gesture, counter) THEN SuppressionCycles ELSE counter - 1

\* variant: the previous position is kept while no hand is located
NextPrevHandPos_KeepStale(prev, hand) == IF hand = None THEN prev ELSE hand

\* prev_hand_pos after the cycle, line 231
NextPrevHandPos(prev, hand) == hand

\* ------------------------------------------------------------------ inputs
Box(a, bx, by, bw, bh) == [area |-> a, x |-> bx, y |-> by, w |-> bw, h |-> bh]
Noise == Box(400, 10, 10, 20, 20)
Near == Box(4999, 50, 250, 100, 100)
H230 == Box(6000, 50, 180, 100, 100)
H250 == Box(6000, 70, 200, 101, 101)
H300 == Box(5000, 50, 250, 100, 100)
H351 == Box(6000, 50, 301, 100, 100)

\* skin-mask contours of the sample frames, in traversal order
ContourLists ==
    << << >>, <<Noise>>, <<Near>>,
       <<H250>>, <<Noise, H300>>, <<H230, H351>>, <<H351, H230>> >>

Blob(a, p) == [area |-> a, perimeter |-> p]
\* contours of the binarised crop of the sample frames
Rois ==
    << << >>,                          \* no contour in the crop
       <<Blob(800, 183)>>,             \* circularity 0.30, area 800
       <<Blob(500, 183)>>,             \* area not above the floor
       <<Blob(800, 110)>>,             \* circularity 0.83
       <<Blob(0, 0)>> >>               \* zero perimeter

\* a frame is a pair <<i, j>>: contours ContourLists[i], crop contours Rois[j]
Frames == (1..Len(ContourLists)) \X (1..Len(Rois))
Advances == 0..MaxAdvance

\* the detector's answers on the sample frames, computed once
Located == [i \in 1..Len(ContourLists) |-> detect_hand(ContourLists[i])]
PalmOpen == [j \in 1..Len(Rois) |-> is_palm_open(Rois[j])]

\* the local is_palm of detect_gesture (FALSE when the call is not reached)
IsPalm(frame, current_hand_pos) ==
    /\ current_hand_pos # None
    /\ HandRoiSize(current_hand_pos) # 0
    /\ PalmOpen[frame[2]]

\* variant: motion is consulted before shape
detect_gesture_MotionFirst(frame, prev_hand_pos, current_hand_pos) ==
    IF current_hand_pos = None THEN NONE
    ELSE IF HandRoiSize(current_hand_pos) = 0 THEN NONE
    ELSE IF SwipeOf(prev_hand_pos, current_hand_pos) # NONE
         THEN SwipeOf(prev_hand_pos, current_hand_pos)
    ELSE IF PalmOpen[frame[2]] THEN PALM_OPEN
    ELSE NONE

\* detect_gesture: the gesture type it returns
detect_gesture(frame, prev_hand_pos, current_hand_pos) ==
    IF current_hand_pos = None THEN NONE
    ELSE IF HandRoiSize(current_hand_pos) = 0 THEN NONE
    ELSE IF PalmOpen[frame[2]] THEN PALM_OPEN
    ELSE SwipeOf(prev_hand_pos, current_hand_pos)

\* variant: no gesture is reported while the suppression counter is positive
Classify_Suppressed(session, frame) ==
    IF session.gesture_cooldown > 0 THEN NONE
    ELSE detect_gesture(frame, session.prev_hand_pos, Located[frame[1]])

\* lines 216-221 of run: the outcome of a cycle that starts in `session` and
\* reads `frame`
Classify(session, frame) ==
    detect_gesture(frame, session.prev_hand_pos, Located[frame[1]])

\* ------------------------------------------------------------------- state
VARIABLES
    pc,                 \* "read", "display", "finally", "done": position in run
    prev_hand_pos,      \* self.prev_hand_pos
    last_action_time,   \* self.last_action_time
    gesture_cooldown,   \* self.gesture_cooldown
    clock,              \* the latest reading of time.time()
    hand_pos,           \* local hand_pos of the latest cycle
    prev_arg,           \* prev_hand_pos as passed to detect_gesture in that cycle
    is_palm,            \* local is_palm of the latest cycle
    gesture_type,       \* local gesture_type of the latest cycle
    emitted,            \* key pressed by the latest step, NoKey if none
    step,               \* which step was taken last
    released,           \* cap.release() and destroyAllWindows() were called
    emitLog,            \* clock readings of all key presses so far
    sinceEmit,          \* cycles completed since the latest key press, -1 if none
    emitGap,            \* on a key press: cycles since the one before, 0 if first
    probe               \* a detector function applied on its own: input and result

vars == <<pc, prev_hand_pos, last_action_time, gesture_cooldown, clock, hand_pos,
          prev_arg, is_palm, gesture_type, emitted, step, released, emitLog, sinceEmit,
          emitGap, probe>>

SinceCap == SuppressionCycles + 2

\* no detector function is applied on its own during a run
NoProbe == [op |-> "none"]

\* the session state, self.prev_hand_pos, self.last_action_time, self.gesture_cooldown
Session ==
    [prev_hand_pos |-> prev_hand_pos, last_action_time |-> last_action_time,
     gesture_cooldown |-> gesture_cooldown]

Init ==
    /\ pc = "read"
    /\ prev_hand_pos = None
    /\ last_action_time = 0
    /\ gesture_cooldown = 0
    /\ clock = EpochStart
    /\ hand_pos = None
    /\ prev_arg = None
    /\ is_palm = FALSE
    /\ gesture_type = NONE
    /\ emitted = NoKey
    /\ step = "init"
    /\ released = FALSE
    /\ emitLog = << >>
    /\ sinceEmit = -1
    /\ emitGap = 0
    /\ probe = NoProbe

\* bookkeeping of the observation variables for a step that pressed `key`
Observe(key, now) ==
    /\ emitted' = key
    /\ emitLog' = IF key # NoKey THEN Append(emitLog, now) ELSE emitLog
    /\ sinceEmit' = IF key # NoKey THEN 0
                    ELSE IF sinceEmit = -1 THEN -1
                    ELSE Min(sinceEmit + 1, SinceCap)
    /\ emitGap' = IF key # NoKey /\ sinceEmit # -1 THEN sinceEmit + 1 ELSE 0

\* a step that presses no key and runs no dispatch
Quiet ==
    /\ emitted' = NoKey
    /\ emitGap' = 0
    /\ UNCHANGED <<emitLog, sinceEmit>>

\* lines 207-231 of one iteration of the while loop of run: a frame is read,
\* the hand located, the gesture classified, the action dispatched and the
\* session state updated
Cycle ==
    \E frame \in Frames, adv \in Advances :
        /\ pc = "read"
        /\ clock + adv <= MaxTime
        /\ \E hp \in {Located[frame[1]]}, now \in {clock + adv} :
           \E g \in {Classify(Session, frame)} :
           \E act \in {IF ShouldAct(g, gesture_cooldown)
                        THEN perform_action(g, now, last_action_time)
                        ELSE [key |-> NoKey, last_action_time |-> last_action_time]} :
              /\ NextGestureCooldown(g, gesture_cooldown) >= -MaxIdle
              /\ clock' = now
              /\ hand_pos' = hp
              /\ prev_arg' = prev_hand_pos
              /\ is_palm' = IsPalm(frame, hp)
              /\ gesture_type' = g
              /\ last_action_time' = act.last_action_time
              /\ gesture_cooldown' = NextGestureCooldown(g, gesture_cooldown)
              /\ prev_hand_pos' = NextPrevHandPos(prev_hand_pos, hp)
              /\ Observe(act.key, now)
        /\ step' = "cycle"
        /\ pc' = "display"
        /\ UNCHANGED <<released, probe>>

\* lines 233-252: the frame is drawn and shown, waitKey returns no 'q'
Display ==
    /\ pc = "display"
    /\ pc' = "read"
    /\ UNCHANGED <<prev_hand_pos, last_action_time, gesture_cooldown, clock, hand_pos,
                   prev_arg, is_palm, gesture_type, emitted, step, released, emitLog, sinceEmit,
                   emitGap, probe>>

\* line 251: waitKey returns 'q', break
Quit ==
    /\ pc = "display"
    /\ pc' = "finally"
    /\ step' = "quit"
    /\ Quiet
    /\ UNCHANGED <<prev_hand_pos, last_action_time, gesture_cooldown, clock, hand_pos,
                   prev_arg, is_palm, gesture_type, released, probe>>

\* an exception raised by the drawing and display calls, lines 233-251
FaultInDisplay ==
    /\ pc = "display"
    /\ pc' = "finally"
    /\ step' = "fault_display"
    /\ Quiet
    /\ UNCHANGED <<prev_hand_pos, last_action_time, gesture_cooldown, clock, hand_pos,
                   prev_arg, is_palm, gesture_type, released, probe>>

\* variant: the iteration goes on with no hand after a failed read
ReadFail_Partial ==
    /\ pc = "read"
    /\ pc' = "finally"
    /\ step' = "readfail"
    /\ Quiet
    /\ prev_hand_pos' = None
    /\ gesture_cooldown' = gesture_cooldown - 1
    /\ UNCHANGED <<last_action_time, clock, hand_pos,
                   prev_arg, is_palm, gesture_type, released, probe>>

\* cap.read() returns ret = False: break, lines 207-210
ReadFail ==
    /\ pc = "read"
    /\ pc' = "finally"
    /\ step' = "readfail"
    /\ Quiet
    /\ UNCHANGED <<prev_hand_pos, last_action_time, gesture_cooldown, clock, hand_pos,
                   prev_arg, is_palm, gesture_type, released, probe>>

\* an exception raised before the dispatch, lines 207-221
FaultBeforeDispatch ==
    /\ pc = "read"
    /\ pc' = "finally"
    /\ step' = "fault_detect"
    /\ Quiet
    /\ UNCHANGED <<prev_hand_pos, last_action_time, gesture_cooldown, clock, hand_pos,
                   prev_arg, is_palm, gesture_type, released, probe>>

\* an exception raised inside pyautogui.press, lines 150/155/160: the key event
\* may or may not have been delivered, and neither last_action_time nor
\* gesture_cooldown nor prev_hand_pos is assigned
FaultInPress ==
    \E frame \in Frames, adv \in Advances, delivered \in BOOLEAN :
        /\ pc = "read"
        /\ gesture_cooldown <= 0
        /\ clock + adv <= MaxTime
        /\ \E hp \in {Located[frame[1]]}, now \in {clock + adv} :
           \E g \in {Classify(Session, frame)} :
           \E act \in {perform_action(g, now, last_action_time)} :
              /\ ShouldAct(g, gesture_cooldown)
              /\ act.key # NoKey
              /\ clock' = now
              /\ hand_pos' = hp
              /\ prev_arg' = prev_hand_pos
              /\ is_palm' = IsPalm(frame, hp)
              /\ gesture_type' = g
              /\ Observe(IF delivered THEN act.key ELSE NoKey, now)
        /\ pc' = "finally"
        /\ step' = "fault_press"
        /\ UNCHANGED <<prev_hand_pos, last_action_time, gesture_cooldown, released, probe>>

\* variant: run returns without the cleanup
Release_Leak ==
    /\ pc = "finally"
    /\ pc' = "done"
    /\ UNCHANGED <<prev_hand_pos, last_action_time, gesture_cooldown, clock, hand_pos,
                   prev_arg, is_palm, gesture_type, emitted, step, released, emitLog,
                   sinceEmit, emitGap, probe>>

\* the finally block of run, lines 259-263
Release ==
    /\ pc = "finally"
    /\ released' = TRUE
    /\ pc' = "done"
    /\ UNCHANGED <<prev_hand_pos, last_action_time, gesture_cooldown, clock, hand_pos,
                   prev_arg, is_palm, gesture_type, emitted, step, emitLog, sinceEmit, emitGap,
                   probe>>

Next ==
    \/ Cycle
    \/ Display
    \/ Quit
    \/ FaultInDisplay
    \/ ReadFail
    \/ FaultBeforeDispatch
    \/ FaultInPress
    \/ Release

Spec == Init /\ [][Next]_vars

\* ---------------------------------------------- the loop that never stops
\* SpecLive is the while loop of run with a frame source that never fails,
\* no 'q' and no exception.  The loop runs for ever, so the clock is kept
\* relative to a sliding epoch: when a reading passes MaxTime, the clock and
\* last_action_time are both moved back by the excess, last_action_time not
\* below 0.  perform_action reads only their difference and compares it with
\* action_cooldown <= MaxTime, so the comparison of line 145 is that of the
\* unshifted values.  gesture_cooldown is likewise held at -MaxIdle: lines
\* 224-228 only test it against 0.  The key presses are not logged and the
\* argument of detect_gesture is not recorded.

\* the frames of the endless stream: no hand; a closed hand at (120, 250); an
\* open palm there; a closed hand at (100, 230); a closed hand at (100, 351)
LiveFrames == {<<1, 1>>, <<4, 1>>, <<4, 2>>, <<6, 1>>, <<7, 1>>}

\* Observe without the log
ObserveUnlogged(key) ==
    /\ emitted' = key
    /\ sinceEmit' = IF key # NoKey THEN 0
                    ELSE IF sinceEmit = -1 THEN -1
                    ELSE Min(sinceEmit + 1, SinceCap)
    /\ emitGap' = IF key # NoKey /\ sinceEmit # -1 THEN sinceEmit + 1 ELSE 0
    /\ UNCHANGED emitLog

\* lines 207-231, the clock reading of perform_action being `adv` later than
\* the reading before
CycleLive(adv) ==
    \E frame \in LiveFrames :
        /\ pc = "read"
        /\ \E hp \in {Located[frame[1]]}, now \in {clock + adv} :
           \E g \in {Classify(Session, frame)} :
           \E act \in {IF ShouldAct(g, gesture_cooldown)
                        THEN perform_action(g, now, last_action_time)
                        ELSE [key |-> NoKey, last_action_time |-> last_action_time]} :
           \E shift \in {Max(0, now - MaxTime)} :
              /\ clock' = now - shift
              /\ hand_pos' = hp
              /\ is_palm' = IsPalm(frame, hp)
              /\ gesture_type' = g
              /\ last_action_time' = Max(0, act.last_action_time - shift)
              /\ gesture_cooldown' =
                     Max(-MaxIdle, NextGestureCooldown(g, gesture_cooldown))
              /\ prev_hand_pos' = NextPrevHandPos(prev_hand_pos, hp)
              /\ ObserveUnlogged(act.key)
        /\ step' = "cycle"
        /\ pc' = "display"
        /\ UNCHANGED <<released, probe, prev_arg>>

\* a cycle within the clock tick of the cycle before
CycleSameTick == CycleLive(0)

\* a cycle at a later clock tick
CycleLaterTick == \E adv \in 1..MaxAdvance : CycleLive(adv)

NextLive ==
    \/ CycleSameTick
    \/ CycleLaterTick
    \/ Display

\* frames keep arriving and the loop keeps running; the clock keeps advancing
LiveFairness ==
    /\ WF_vars(NextLive)
    /\ SF_vars(CycleLaterTick)

SpecLive == Init /\ [][NextLive]_vars /\ LiveFairness

\* ------------------------------------------- the detector functions alone
\* SpecDetector applies one function of HandDetector to one input: Init draws
\* the input, the action stores the result.  The run does not start.

\* contour lists of up to MaxContours contours; the contour at index i has its
\* own bounding box, so that the contour returned can be told from its equals
ProbeAreas == {400, 4999, 5000, 6000}
ProbeContours ==
    UNION { { [i \in 1..n |-> Box(areas[i], 100 * i, 100, 50, 60)] :
                areas \in [1..n -> ProbeAreas] } : n \in 0..MaxContours }

LocateProbes == [op : {"locate"}, contours : ProbeContours, done : {FALSE}]

\* frames of W x H pixels and the bounding boxes that lie inside them
CentroidProbes ==
    { [op |-> "centroid", W |-> t[1], H |-> t[2], done |-> FALSE,
       box |-> Box(t[5] * t[6], t[3], t[4], t[5], t[6])] :
        t \in { u \in (1..ProbeDim) \X (1..ProbeDim) \X (0..(ProbeDim - 1))
                      \X (0..(ProbeDim - 1)) \X (1..ProbeDim) \X (1..ProbeDim) :
                  u[3] + u[5] <= u[1] /\ u[4] + u[6] <= u[2] } }

\* frames of W x H pixels and the positions <<cx, cy>> inside them
CropWidths == {1, CropHalf, 2 * CropHalf + 1, ProbeSpan}
CropHeights == {1, ProbeSpan}
CropProbes ==
    UNION { { [op |-> "crop", W |-> W, H |-> H, done |-> FALSE, pos |-> <<cx, cy>>] :
                cx \in 0..(W - 1), cy \in {0, H \div 2, H - 1} } :
            W \in CropWidths, H \in CropHeights }

\* pairs of session states that agree on prev_hand_pos, and a frame
ProbeSessions ==
    [prev_hand_pos : {None, <<100, 300>>, <<100, 351>>},
     last_action_time : {0, EpochStart},
     gesture_cooldown : {-MaxIdle, 0, SuppressionCycles}]
ClassifyProbes ==
    { [op |-> "classify", s1 |-> t[1], s2 |-> t[2], frame |-> t[3], done |-> FALSE] :
        t \in { u \in ProbeSessions \X ProbeSessions \X Frames :
                  u[1].prev_hand_pos = u[2].prev_hand_pos } }

InitDetector ==
    /\ pc = "read"
    /\ prev_hand_pos = None
    /\ last_action_time = 0
    /\ gesture_cooldown = 0
    /\ clock = EpochStart
    /\ hand_pos = None
    /\ prev_arg = None
    /\ is_palm = FALSE
    /\ gesture_type = NONE
    /\ emitted = NoKey
    /\ step = "init"
    /\ released = FALSE
    /\ emitLog = << >>
    /\ sinceEmit = -1
    /\ emitGap = 0
    /\ \/ probe \in LocateProbes
       \/ probe \in CentroidProbes
       \/ probe \in CropProbes
       \/ probe \in ClassifyProbes

RunUntouched ==
    UNCHANGED <<pc, prev_hand_pos, last_action_time, gesture_cooldown, clock, hand_pos,
                prev_arg, is_palm, gesture_type, emitted, step, released, emitLog,
                sinceEmit, emitGap>>

\* detect_hand on the contours of a mask, lines 40-55
ApplyLocate ==
    /\ probe.op = "locate"
    /\ ~probe.done
    /\ probe' = [op |-> "locate", contours |-> probe.contours, done |-> TRUE,
                 pos |-> detect_hand(probe.contours),
                 region |-> detect_hand_contour(probe.contours)]
    /\ RunUntouched

\* the centroid of a bounding box, lines 51-53
ApplyCentroid ==
    /\ probe.op = "centroid"
    /\ ~probe.done
    /\ probe' = [op |-> "centroid", W |-> probe.W, H |-> probe.H, box |-> probe.box,
                 done |-> TRUE, pos |-> Centroid(probe.box)]
    /\ RunUntouched

\* the crop window of detect_gesture, lines 65-68
ApplyCrop ==
    /\ probe.op = "crop"
    /\ ~probe.done
    /\ probe' = [op |-> "crop", W |-> probe.W, H |-> probe.H, pos |-> probe.pos,
                 done |-> TRUE,
                 rows |-> CropExtent(probe.pos[2], probe.H),
                 cols |-> CropExtent(probe.pos[1], probe.W)]
    /\ RunUntouched

\* the classification of one frame from two session states, lines 216-221
ApplyClassify ==
    /\ probe.op = "classify"
    /\ ~probe.done
    /\ probe' = [op |-> "classify", s1 |-> probe.s1, s2 |-> probe.s2,
                 frame |-> probe.frame, done |-> TRUE,
                 g1 |-> Classify(probe.s1, probe.frame),
                 g2 |-> Classify(probe.s2, probe.frame)]
    /\ RunUntouched

NextDetector ==
    \/ ApplyLocate
    \/ ApplyCentroid
    \/ ApplyCrop
    \/ ApplyClassify

SpecDetector == InitDetector /\ [][NextDetector]_vars

\* ================================================================== claims

Swipes == {SWIPE_UP, SWIPE_DOWN}
\* a step that runs lines 207-231 to the end
IsCycleStep == pc = "read" /\ step' = "cycle"

\* C1: any two key presses are at least action_cooldown apart on the clock.
C1_EmissionsSpaced ==
    \A i, j \in 1..Len(emitLog) :
        i < j => emitLog[j] - emitLog[i] >= action_cooldown

\* a second key press, exactly action_cooldown after the first
C1_Witness ==
    /\ step = "cycle"
    /\ emitted # NoKey
    /\ Len(emitLog) >= 2
    /\ emitLog[Len(emitLog)] - emitLog[Len(emitLog) - 1] = action_cooldown

\* C2: a cycle that starts with gesture_cooldown > 0 presses no key, whatever
\* the outcome and the clock, and decrements gesture_cooldown by exactly 1.
C2_SuppressedWhilePositive ==
    [][(pc = "read" /\ gesture_cooldown > 0)
         => /\ emitted' = NoKey
            /\ (step' = "cycle" => gesture_cooldown' = gesture_cooldown - 1)]_vars

\* a palm seen with the counter positive and the time cooldown long over
C2_Witness ==
    /\ step = "cycle"
    /\ gesture_type = PALM_OPEN
    /\ emitted = NoKey
    /\ gesture_cooldown \in 0..(SuppressionCycles - 1)
    /\ clock - last_action_time >= action_cooldown

\* C3 as claimed: gesture_cooldown is reset to 20 in a cycle if and only if a
\* key is pressed in that cycle.
C3_ResetIffEmitted ==
    step = "cycle" => ((gesture_cooldown = SuppressionCycles) <=> (emitted # NoKey))

\* C3 as amended: in a completed cycle gesture_cooldown is reset to 20 if and
\* only if the outcome is not NONE and the counter was <= 0 at the start of
\* the cycle, whether or not the time cooldown lets the key through; a key
\* press implies the reset, the reset does not imply a key press.
C3_ResetIffAttempted ==
    [][IsCycleStep
         => /\ (gesture_cooldown' = SuppressionCycles)
                  <=> (gesture_type' # NONE /\ gesture_cooldown <= 0)
            /\ (emitted' # NoKey => gesture_cooldown' = SuppressionCycles)]_vars

\* the counter is reset by a gesture the time cooldown blocks
C3_Witness ==
    /\ step = "cycle"
    /\ gesture_type # NONE
    /\ gesture_cooldown = SuppressionCycles
    /\ emitted = NoKey
    /\ clock - last_action_time < action_cooldown

\* C4: a cycle whose outcome is not NONE, with the counter <= 0 and more than
\* action_cooldown on the clock since last_action_time, presses the key of that
\* outcome; an outcome NONE presses nothing; any key pressed is the key of the
\* outcome of the same cycle.
C4_ActionOfOutcome ==
    [][pc = "read" /\ step' \in {"cycle", "fault_press"}
         => /\ (/\ step' = "cycle"
                /\ gesture_type' # NONE
                /\ gesture_cooldown <= 0
                /\ clock' - last_action_time > action_cooldown)
               => emitted' # NoKey
            /\ gesture_type' = NONE => emitted' = NoKey
            /\ emitted' = "down" => gesture_type' = SWIPE_UP
            /\ emitted' = "up" => gesture_type' = SWIPE_DOWN
            /\ emitted' = "space" => gesture_type' = PALM_OPEN]_vars

\* a swipe down dispatched as the up key, after an earlier swipe up
C4_Witness ==
    /\ step = "cycle"
    /\ gesture_type = SWIPE_DOWN
    /\ emitted = "up"
    /\ Len(emitLog) >= 2

\* C5: the k-th cycle after a key press presses no key for k = 1..20; the
\* 21st can.
C5_TwentyCyclesSilent ==
    emitGap # 0 => emitGap >= SuppressionCycles + 1

\* a key pressed in the 21st cycle after the previous key press
C5_Witness ==
    /\ emitted # NoKey
    /\ emitGap = SuppressionCycles + 1

\* C6 as claimed: gesture_cooldown is never below 0.
C6_CounterNonNegative == gesture_cooldown >= 0

\* C6 as amended: gesture_cooldown is an integer never above 20, with no lower
\* bound at 0: every completed cycle either resets it to 20 or decrements it by
\* exactly 1, also when it is already <= 0.
C6_CounterStepsDown ==
    /\ [](gesture_cooldown \in Int /\ gesture_cooldown <= SuppressionCycles)
    /\ [][IsCycleStep
            => \/ gesture_cooldown' = SuppressionCycles
               \/ gesture_cooldown' = gesture_cooldown - 1]_vars

\* the counter below 0 after idle cycles
C6_Witness ==
    /\ step = "cycle"
    /\ gesture_type = NONE
    /\ gesture_cooldown < 0

\* C7: with a hand located and the shape open, the outcome is PALM_OPEN for
\* every previous position.
C7_PalmDominates ==
    (hand_pos # None /\ is_palm) => gesture_type = PALM_OPEN

\* an open palm that also moved up by more than the swipe threshold
C7_Witness ==
    /\ step = "cycle"
    /\ is_palm
    /\ hand_pos # None
    /\ prev_arg # None
    /\ prev_arg[2] - hand_pos[2] > SwipeThreshold
    /\ gesture_type = PALM_OPEN

\* C8: a cycle whose previous position is None never yields a swipe, and the
\* previous position a cycle starts with is the hand position located by the
\* cycle before it (None if none was located, None for the first cycle).
C8_SwipeNeedsTwoSamples ==
    /\ prev_arg = None => gesture_type \notin Swipes
    /\ pc \in {"read", "display"} => prev_hand_pos = hand_pos

\* a closed hand located right after a cycle that located none, later in a run
C8_Witness ==
    /\ step = "cycle"
    /\ emitLog # << >>
    /\ prev_arg = None
    /\ hand_pos # None
    /\ ~is_palm
    /\ gesture_type = NONE

\* C9: a cycle in which no hand is located (no contour, or the largest below
\* min_contour_area) has outcome NONE, presses no key, leaves last_action_time
\* alone and does not reset gesture_cooldown to 20.
C9_NoHandNoAction ==
    /\ [](\A i \in 1..Len(ContourLists) :
             (\A k \in 1..Len(ContourLists[i]) :
                 ContourLists[i][k].area < min_contour_area)
             => Located[i] = None)
    /\ [][(pc = "read" /\ pc' # "read" /\ hand_pos' = None
             /\ step' \in {"cycle", "fault_press"})
            => /\ gesture_type' = NONE
               /\ emitted' = NoKey
               /\ last_action_time' = last_action_time
               /\ gesture_cooldown' = gesture_cooldown - 1
               /\ gesture_cooldown' # SuppressionCycles]_vars

\* the hand is lost while both debounce mechanisms would let an action through
C9_Witness ==
    /\ step = "cycle"
    /\ hand_pos = None
    /\ prev_arg # None
    /\ gesture_type = NONE
    /\ gesture_cooldown < 0
    /\ clock - last_action_time >= action_cooldown

\* vertical displacement of the latest cycle
DeltaY == prev_arg[2] - hand_pos[2]

\* C10: closed shape, previous position present: SWIPE_UP exactly when
\* previousY - currentY > 50, SWIPE_DOWN exactly when it is < -50, NONE
\* otherwise, whatever the horizontal coordinates.
C10_SwipeThresholds ==
    (hand_pos # None /\ prev_arg # None /\ ~is_palm)
        => /\ (gesture_type = SWIPE_UP) <=> (DeltaY > 50)
           /\ (gesture_type = SWIPE_DOWN) <=> (DeltaY < -50)
           /\ (gesture_type = NONE) <=> (DeltaY >= -50 /\ DeltaY <= 50)

\* previous (100, 300), current (100, 230): SWIPE_UP
C10_Witness ==
    /\ step = "cycle"
    /\ prev_arg = <<100, 300>>
    /\ hand_pos = <<100, 230>>
    /\ ~is_palm
    /\ gesture_type = SWIPE_UP

\* the areas of the contours of the probe
ProbeAreaSet == {probe.contours[i].area : i \in 1..Len(probe.contours)}

\* C11: detect_hand reports a region if and only if the contour list is not
\* empty and its largest area is not below min_contour_area (5000); the region
\* is the first contour in traversal order of the largest area, its area is
\* >= 5000, and the position is the centre of its bounding box.
C11_LocatorLargestFirst ==
    (probe.op = "locate" /\ probe.done)
        => LET cs == probe.contours
               qualifies == /\ cs # << >>
                            /\ \E a \in ProbeAreaSet :
                                   /\ a >= 5000
                                   /\ \A b \in ProbeAreaSet : b <= a
           IN /\ (probe.pos # None) <=> qualifies
              /\ (probe.region # << >>) <=> qualifies
              /\ qualifies
                   => \E k \in 1..Len(cs) :
                          /\ \A j \in 1..Len(cs) : cs[j].area <= cs[k].area
                          /\ \A j \in 1..(k - 1) : cs[j].area # cs[k].area
                          /\ probe.region = <<cs[k]>>
                          /\ probe.region[1].area >= 5000
                          /\ probe.pos = <<cs[k].x + 25, cs[k].y + 30>>

\* two contours tie for the largest area behind a smaller one: the first of
\* the two is reported
C11_Witness ==
    /\ probe.op = "locate"
    /\ probe.done
    /\ Len(probe.contours) = 3
    /\ probe.contours[1].area = 400
    /\ probe.contours[2].area = 5000
    /\ probe.contours[3].area = 5000
    /\ probe.region = <<probe.contours[2]>>

\* C12: for a bounding box inside a W x H frame (x, y >= 0, w, h >= 1,
\* x + w <= W, y + h <= H) the position (x + w div 2, y + h div 2) is inside
\* the frame.
C12_CentroidInFrame ==
    (probe.op = "centroid" /\ probe.done)
        => /\ 0 <= probe.pos[1] /\ probe.pos[1] < probe.W
           /\ 0 <= probe.pos[2] /\ probe.pos[2] < probe.H

\* a box one pixel wide and high in the last column and row of the frame
C12_Witness ==
    /\ probe.op = "centroid"
    /\ probe.done
    /\ probe.box.w = 1 /\ probe.box.h = 1
    /\ probe.box.x = probe.W - 1 /\ probe.box.y = probe.H - 1
    /\ probe.W > 1 /\ probe.H > 1
    /\ probe.pos = <<probe.W - 1, probe.H - 1>>

InLoop == pc \in {"read", "display"}

\* C13: the step in which cap.read() yields no frame classifies nothing,
\* presses no key, reads no clock, leaves prev_hand_pos, gesture_cooldown and
\* last_action_time as they are and leaves the loop; these three fields are
\* not assigned between the end of a cycle and the next read either, so they
\* are those of the last complete cycle; after the failed read no cycle runs.
C13_NoPartialCycle ==
    [][/\ (pc = "read" /\ step' = "readfail")
            => /\ pc' = "finally"
               /\ emitted' = NoKey
               /\ UNCHANGED <<prev_hand_pos, gesture_cooldown, last_action_time,
                              gesture_type, hand_pos, is_palm, clock, emitLog>>
       /\ pc = "display"
            => UNCHANGED <<prev_hand_pos, gesture_cooldown, last_action_time>>
       /\ step = "readfail"
            => /\ step' = "readfail"
               /\ ~InLoop'
               /\ UNCHANGED <<prev_hand_pos, gesture_cooldown, last_action_time,
                              gesture_type, hand_pos, clock, emitLog>>]_vars

\* a failed read after cycles that left a position, a positive counter and a
\* key press behind; run has returned
C13_Witness ==
    /\ step = "readfail"
    /\ pc = "done"
    /\ prev_hand_pos # None
    /\ gesture_cooldown > 0
    /\ last_action_time > 0
    /\ emitLog # << >>

\* C14: the loop is left only into the finally block, whichever step leaves
\* it; the finally block can always run, and its step releases the resources;
\* run has returned exactly when they are released; after the release no step
\* is taken, so no frame is read and no key pressed.
C14_ReleasedOnEveryExit ==
    [][/\ (pc = "done") <=> released
       /\ (pc' = "done") <=> released'
       /\ (InLoop /\ ~InLoop') => (pc' = "finally" /\ ~released')
       /\ pc = "finally" => ENABLED Release
       /\ pc = "finally"
            => /\ pc' = "done"
               /\ released'
               /\ UNCHANGED <<emitLog, step, clock, prev_hand_pos,
                              gesture_cooldown, last_action_time>>
       /\ released => UNCHANGED vars]_vars

\* run has returned after a fault inside a key press that was delivered
C14_Witness ==
    /\ pc = "done"
    /\ released
    /\ step = "fault_press"
    /\ emitted # NoKey

\* C15: two session states that agree on prev_hand_pos give the same outcome
\* for the same frame, whatever their gesture_cooldown and last_action_time.
C15_OutcomeIgnoresDebounce ==
    (probe.op = "classify" /\ probe.done) => probe.g1 = probe.g2

\* a swipe up classified alike with the counter at 20 and at 0
C15_Witness ==
    /\ probe.op = "classify"
    /\ probe.done
    /\ probe.s1.gesture_cooldown = SuppressionCycles
    /\ probe.s2.gesture_cooldown = 0
    /\ probe.s1.last_action_time # probe.s2.last_action_time
    /\ probe.g1 = SWIPE_UP
    /\ probe.g2 = SWIPE_UP

\* C16 as claimed: a key is pressed only if the clock reads more than
\* action_cooldown after last_action_time.
C16_StrictlyExceeds ==
    [][(pc = "read" /\ emitted' # NoKey)
          => clock' - last_action_time > action_cooldown]_vars

\* C16 as amended: a key is pressed only if the clock reads at least
\* action_cooldown after last_action_time, and a completed cycle whose outcome
\* is not NONE with the counter <= 0 presses the key exactly when it does: at
\* a difference of exactly action_cooldown the key is pressed.
C16_AtLeastCooldown ==
    [][/\ (pc = "read" /\ emitted' # NoKey)
            => clock' - last_action_time >= action_cooldown
       /\ (IsCycleStep /\ gesture_type' # NONE /\ gesture_cooldown <= 0)
            => ((emitted' # NoKey)
                   <=> (clock' - last_action_time >= action_cooldown))]_vars

\* an open palm dispatched exactly action_cooldown after the key press before
C16_Witness ==
    /\ step = "cycle"
    /\ gesture_type = PALM_OPEN
    /\ emitted = "space"
    /\ Len(emitLog) >= 2
    /\ clock - emitLog[Len(emitLog) - 1] = action_cooldown
    /\ last_action_time = clock

\* C17: a completed cycle changes last_action_time if and only if it presses
\* a key, and then sets it to the clock reading of that cycle; cycles with
\* outcome NONE, with the counter positive or inside the time cooldown leave
\* it unchanged, and so does every step that is not a completed cycle.
C17_StampIffEmitted ==
    [][/\ IsCycleStep
            => /\ (last_action_time' # last_action_time) <=> (emitted' # NoKey)
               /\ emitted' # NoKey => last_action_time' = clock'
               /\ (\/ gesture_type' = NONE
                   \/ gesture_cooldown > 0
                   \/ clock' - last_action_time < action_cooldown)
                    => last_action_time' = last_action_time
       /\ ~IsCycleStep => last_action_time' = last_action_time]_vars

\* a swipe up reset the counter inside the time cooldown, the clock having
\* advanced, and last_action_time is still that of the key press before
C17_Witness ==
    /\ step = "cycle"
    /\ gesture_type = SWIPE_UP
    /\ emitted = NoKey
    /\ gesture_cooldown = SuppressionCycles
    /\ emitLog # << >>
    /\ last_action_time = emitLog[Len(emitLog)]
    /\ clock > last_action_time

\* C18: if from some cycle on every outcome is not NONE, a key is pressed
\* infinitely often (frames keep arriving, nothing stops the loop and the
\* clock keeps advancing: LiveFairness).
C18_SustainedGestureServed ==
    <>[](gesture_type # NONE) => []<>(pc = "display" /\ emitted # NoKey)

\* an open palm dispatched more than 21 cycles after the key press before:
\* the cycle at which the counter had run out was inside the time cooldown
C18_Witness ==
    /\ pc = "display"
    /\ gesture_type = PALM_OPEN
    /\ emitted = "space"
    /\ emitGap > SuppressionCycles + 1
    /\ gesture_cooldown = SuppressionCycles
    /\ last_action_time = clock

\* the pixels of an axis of `limit` pixels that lie in the window around c
WindowPixels(c, limit) == {r \in 0..(limit - 1) : r >= c - 50 /\ r < c + 50}

\* C19: for every position inside a W x H frame the crop window, rows
\* max(0, cy-50)..min(H, cy+50) and columns max(0, cx-50)..min(W, cx+50), has
\* at least one row and one column, so the empty-crop branch of detect_gesture
\* is not taken for any position detect_hand reports.
C19_CropNeverEmpty ==
    /\ (probe.op = "crop" /\ probe.done)
         => /\ probe.rows >= 1
            /\ probe.cols >= 1
            /\ probe.rows = Cardinality(WindowPixels(probe.pos[2], probe.H))
            /\ probe.cols = Cardinality(WindowPixels(probe.pos[1], probe.W))
    /\ \A i \in 1..Len(ContourLists) :
           Located[i] # None => HandRoiSize(Located[i]) # 0

\* the position in the top right corner of the largest frame
C19_Witness ==
    /\ probe.op = "crop"
    /\ probe.done
    /\ probe.W = ProbeSpan
    /\ probe.pos = <<probe.W - 1, 0>>
    /\ probe.cols = CropHalf + 1
    /\ probe.rows >= 1
====
